---------------------------- MODULE Spec2Model ----------------------------
(***************************************************************************)
(* Model of backend/main.py: the rule-based scorer analyze_business_idea,  *)
(* the enrichment attempt get_ai_analysis and the request handler          *)
(* evaluate_idea that races the attempt against a 15 second budget.        *)
(*                                                                         *)
(* Python str values are TLA+ strings; TLC evaluates Len, \o and SubSeq on *)
(* them, so len(), concatenation, slicing, find/rfind, `in` and lower()    *)
(* are computed character by character as Python computes them.  Python    *)
(* lists are sequences, dicts with fixed keys are records.                 *)
(***************************************************************************)
EXTENDS Integers, Sequences, FiniteSets, TLC

VARIABLES
    pc,        \* where the caller is: the scorer's caller, or evaluate_idea
    idea,      \* the BusinessIdea of the request
    result,    \* what analyze_business_idea returned to a direct caller
    now,       \* seconds since evaluate_idea submitted the attempt
    worker,    \* the pool thread running get_ai_analysis
    reply,     \* what requests.post / response.json() gave the worker
    log,       \* the message get_ai_analysis printed, if any
    future,    \* the Future of the attempt
    timedOut,  \* future.result raised TimeoutError
    analysis,  \* evaluate_idea's local `analysis`
    response   \* what evaluate_idea returned

vars == <<pc, idea, result, now, worker, reply, log, future, timedOut,
          analysis, response>>

None == "None"

Min(a, b) == IF a < b THEN a ELSE b
Max(a, b) == IF a > b THEN a ELSE b

(***************************************************************************)
(* Bounds of the model.                                                    *)
(***************************************************************************)
\* The generated text is the concatenation of at most MaxPieces pieces.
MaxPieces == 3
\* The clock stops at MaxClock seconds.
MaxClock == 16

(***************************************************************************)
(* Python string primitives.                                               *)
(***************************************************************************)
CharAt(s, i) == SubSeq(s, i, i)

UpperCase == "ABCDEFGHIJKLMNOPQRSTUVWXYZ"
LowerCase == "abcdefghijklmnopqrstuvwxyz"

\* The lower-case letter of each upper-case letter.
UpperToLower ==
    [c \in {CharAt(UpperCase, i) : i \in 1..Len(UpperCase)} |->
        CharAt(LowerCase, CHOOSE i \in 1..Len(UpperCase) : CharAt(UpperCase, i) = c)]

\* str.lower() on one character (ASCII letters; other characters unchanged).
LowerChar(c) == IF c \in DOMAIN UpperToLower THEN UpperToLower[c] ELSE c

RECURSIVE LowerFrom(_, _)
LowerFrom(s, i) ==
    IF i > Len(s) THEN "" ELSE LowerChar(CharAt(s, i)) \o LowerFrom(s, i + 1)

\* s.lower()
lower(s) == LowerFrom(s, 1)

\* `sub in s`: sub occurs in s as a contiguous substring.
Contains(s, sub) ==
    \E i \in 1..(Len(s) - Len(sub) + 1) : SubSeq(s, i, i + Len(sub) - 1) = sub

\* xs.append(x)
Append1(xs, x) == xs \o <<x>>

\* Mutant of Take: the slice is forgotten.
Take_NoSlice(xs, n) == xs

\* Mutant of Take: xs[-n:] instead of xs[:n].
Take_Last(xs, n) == SubSeq(xs, Max(1, Len(xs) - n + 1), Len(xs))

\* xs[:n] for a list xs and n >= 0.
Take(xs, n) == SubSeq(xs, 1, Min(n, Len(xs)))


(***************************************************************************)
(* analyze_business_idea: the rule-based scorer.                           *)
(***************************************************************************)
\* Lines 89-94: the locals before the first rule.
InitLocals ==
    [score |-> 0, strengths |-> <<>>, weaknesses |-> <<>>,
     opportunities |-> <<>>, threats |-> <<>>, risk_factors |-> <<>>]

\* Mutant of RuleDescription: the else branch is missing.
RuleDescription_NoElse(i, st) ==
    IF Len(i.description) > 100
    THEN [st EXCEPT !.score = @ + 20,
                    !.strengths = Append1(@, "Detailed business description")]
    ELSE st

\* Lines 96-101.
RuleDescription(i, st) ==
    IF Len(i.description) > 100
    THEN [st EXCEPT !.score = @ + 20,
                    !.strengths = Append1(@, "Detailed business description")]
    ELSE [st EXCEPT !.weaknesses =
                        Append1(@, "Business description could be more detailed")]

\* Mutant of RuleTargetMarket: `if` in place of `elif`.
RuleTargetMarket_BothIfs(i, st) ==
    LET st1 == IF Contains(lower(i.targetMarket), "global")
               THEN [st EXCEPT !.score = @ + 15,
                        !.opportunities = Append1(@, "Global market potential"),
                        !.risk_factors =
                            Append1(@, "International market challenges")]
               ELSE st
    IN  IF Contains(lower(i.targetMarket), "local")
        THEN [st1 EXCEPT !.score = @ + 10,
                         !.strengths = Append1(@, "Focused local market approach")]
        ELSE st1

\* Lines 103-110.
RuleTargetMarket(i, st) ==
    IF Contains(lower(i.targetMarket), "global")
    THEN [st EXCEPT !.score = @ + 15,
                    !.opportunities = Append1(@, "Global market potential"),
                    !.risk_factors = Append1(@, "International market challenges")]
    ELSE IF Contains(lower(i.targetMarket), "local")
    THEN [st EXCEPT !.score = @ + 10,
                    !.strengths = Append1(@, "Focused local market approach")]
    ELSE st

\* Mutant of RuleRevenueModel: 25 points for a subscription.
RuleRevenueModel_25(i, st) ==
    IF Contains(lower(i.revenueModel), "subscription")
    THEN [st EXCEPT !.score = @ + 25,
                    !.strengths = Append1(@, "Recurring revenue model")]
    ELSE IF Contains(lower(i.revenueModel), "one-time")
    THEN [st EXCEPT !.score = @ + 10,
                    !.weaknesses = Append1(@, "One-time revenue may limit growth")]
    ELSE st

\* Lines 112-118.
RuleRevenueModel(i, st) ==
    IF Contains(lower(i.revenueModel), "subscription")
    THEN [st EXCEPT !.score = @ + 20,
                    !.strengths = Append1(@, "Recurring revenue model")]
    ELSE IF Contains(lower(i.revenueModel), "one-time")
    THEN [st EXCEPT !.score = @ + 10,
                    !.weaknesses = Append1(@, "One-time revenue may limit growth")]
    ELSE st

\* Mutant of RuleCostStructure: 10 points for high costs.
RuleCostStructure_High10(i, st) ==
    IF Contains(lower(i.costStructure), "low")
    THEN [st EXCEPT !.score = @ + 15,
                    !.strengths = Append1(@, "Low cost structure")]
    ELSE IF Contains(lower(i.costStructure), "high")
    THEN [st EXCEPT !.score = @ + 10,
                    !.risk_factors = Append1(@, "High operational costs")]
    ELSE st

\* Lines 120-126.
RuleCostStructure(i, st) ==
    IF Contains(lower(i.costStructure), "low")
    THEN [st EXCEPT !.score = @ + 15,
                    !.strengths = Append1(@, "Low cost structure")]
    ELSE IF Contains(lower(i.costStructure), "high")
    THEN [st EXCEPT !.score = @ + 5,
                    !.risk_factors = Append1(@, "High operational costs")]
    ELSE st

\* Lines 128-135.
RuleDistribution(i, st) ==
    IF Contains(lower(i.distributionChannels), "online")
    THEN [st EXCEPT !.score = @ + 15,
                    !.strengths = Append1(@, "Online distribution capability"),
                    !.opportunities = Append1(@, "Digital market reach")]
    ELSE IF Contains(lower(i.distributionChannels), "physical")
    THEN [st EXCEPT !.score = @ + 10,
                    !.risk_factors = Append1(@, "Physical distribution costs")]
    ELSE st

\* Lines 137-147.
RuleIndustry(i, st) ==
    IF i.industry = "SaaS"
    THEN [st EXCEPT !.score = @ + 15,
                    !.opportunities = Append1(@, "Growing SaaS market"),
                    !.strengths = Append1(@, "Scalable business model")]
    ELSE IF i.industry = "E-commerce"
    THEN [st EXCEPT !.score = @ + 10,
                    !.threats = Append1(@, "High competition in e-commerce")]
    ELSE IF i.industry = "Services"
    THEN [st EXCEPT !.score = @ + 12,
                    !.strengths = Append1(@, "Service-based business stability")]
    ELSE st

\* Lines 89-147: the locals after the last rule, before the clamp.
Accumulate(i) ==
    RuleIndustry(i,
      RuleDistribution(i,
        RuleCostStructure(i,
          RuleRevenueModel(i,
            RuleTargetMarket(i,
              RuleDescription(i, InitLocals))))))

\* Line 150.
Clamp(score) == Min(Max(score, 0), 100)

\* Mutant of Tier: >= in place of >.
Tier_AtLeast(score) ==
    IF score >= 70 THEN "strong" ELSE IF score >= 40 THEN "moderate" ELSE "weak"

\* Line 154: the conditional expression inside the f-string.
Tier(score) ==
    IF score > 70 THEN "strong" ELSE IF score > 40 THEN "moderate" ELSE "weak"

\* Lines 153-157.
Summary(i, score, strengths, threats) ==
    << i.businessName \o " shows " \o Tier(score) \o " market potential",
       "Key strength: " \o (IF strengths # <<>> THEN strengths[1]
                            ELSE "Need to identify core strengths"),
       "Main challenge: " \o (IF threats # <<>> THEN threats[1]
                              ELSE "Need to assess market risks") >>

\* Lines 159-169.
BuildResult(st, score, summary) ==
    [swot_analysis |-> [strengths |-> Take(st.strengths, 3),
                        weaknesses |-> Take(st.weaknesses, 3),
                        opportunities |-> Take(st.opportunities, 3),
                        threats |-> Take(st.threats, 3)],
     viability_score |-> score,
     risk_factors |-> Take(st.risk_factors, 3),
     summary |-> summary]

\* Lines 86-169.
analyze_business_idea(i) ==
    LET st == Accumulate(i)
        score == Clamp(st.score)
    IN  BuildResult(st, score, Summary(i, score, st.strengths, st.threats))

(***************************************************************************)
(* The inputs: BusinessIdea values (lines 25-32), seven strings.           *)
(***************************************************************************)
RECURSIVE Repeat(_, _)
Repeat(c, n) == IF n = 0 THEN "" ELSE c \o Repeat(c, n - 1)

RECURSIVE Texts(_, _)
\* All concatenations of at most n words of the set words.
Texts(words, n) ==
    IF n = 0 THEN {""}
    ELSE LET shorter == Texts(words, n - 1)
         IN  shorter \cup {t \o w : t \in shorter, w \in words}

BusinessNames == {"", "Acme"}
\* Descriptions of 0, 100 and 101 characters.
Descriptions == {"", Repeat("A", 100), Repeat("A", 101)}
\* Per scanned field: no keyword, a near miss, each keyword alone (one of them
\* not in lower case) and both keywords in either order.
TargetMarkets == {"", "globe", "Global", "local", "localGlobal", "Globallocal"}
RevenueModels ==
    {"", "onetime", "subscription", "One-Time", "One-Timesubscription",
     "subscriptionOne-Time"}
CostStructures == {"", "hi", "low", "HIGH", "HIGHlow", "lowHIGH"}
DistributionChannels ==
    {"", "on line", "Online", "physical", "physicalOnline", "Onlinephysical"}
\* Industry is compared exactly: "saas" is not "SaaS".
Industries == {"", "saas", "SaaS", "E-commerce", "Services"}

\* The idea whose seven fields are all empty strings.
EmptyIdea ==
    [businessName |-> "", description |-> "", targetMarket |-> "",
     revenueModel |-> "", costStructure |-> "", distributionChannels |-> "",
     industry |-> ""]

Ideas ==
    [businessName : BusinessNames, description : Descriptions,
     targetMarket : TargetMarkets, revenueModel : RevenueModels,
     costStructure : CostStructures, distributionChannels : DistributionChannels,
     industry : Industries]

\* The ideas posted to /api/evaluateIdea.
RequestIdeas ==
    [businessName : {"Acme"}, description : {"", Repeat("A", 101)},
     targetMarket : {"Global"}, revenueModel : {"subscription"},
     costStructure : {"low"}, distributionChannels : {"Online"},
     industry : {"", "SaaS"}]
    \cup {EmptyIdea}

(***************************************************************************)
(* json.dumps and json.loads.                                              *)
(***************************************************************************)
Digits == "0123456789"

RECURSIVE IntToStr(_)
\* str(n) for an int n >= 0, as json.dumps writes it.
IntToStr(n) ==
    IF n < 10 THEN CharAt(Digits, n + 1)
    ELSE IntToStr(n \div 10) \o CharAt(Digits, (n % 10) + 1)

\* json.dumps of a str with no character that needs an escape.
DumpsStr(x) == "\"" \o x \o "\""

RECURSIVE DumpsItems(_, _)
DumpsItems(xs, k) ==
    IF k > Len(xs) THEN ""
    ELSE (IF k > 1 THEN ", " ELSE "") \o DumpsStr(xs[k]) \o DumpsItems(xs, k + 1)

\* json.dumps of a list of str.
DumpsList(xs) == "[" \o DumpsItems(xs, 1) \o "]"

\* json.dumps of a dict with the keys of an AnalysisResult, in their order.
DumpsAnalysis(v) ==
       "{\"swot_analysis\": {\"strengths\": " \o DumpsList(v.swot_analysis.strengths)
    \o ", \"weaknesses\": " \o DumpsList(v.swot_analysis.weaknesses)
    \o ", \"opportunities\": " \o DumpsList(v.swot_analysis.opportunities)
    \o ", \"threats\": " \o DumpsList(v.swot_analysis.threats)
    \o "}, \"viability_score\": " \o IntToStr(v.viability_score)
    \o ", \"risk_factors\": " \o DumpsList(v.risk_factors)
    \o ", \"summary\": " \o DumpsList(v.summary) \o "}"

\* The empty dict {}.
EmptyDict == <<>>

\* Line 198: json.dumps(analysis), for the dicts that reach it: {} and dicts
\* with the keys of an AnalysisResult.
json_dumps(v) == IF DOMAIN v = {} THEN "{}" ELSE DumpsAnalysis(v)

\* A payload of the remote service that has the AnalysisResult shape.
GoodPayload ==
    [swot_analysis |-> [strengths |-> <<"s1">>, weaknesses |-> <<"w1">>,
                        opportunities |-> <<"o1">>, threats |-> <<"t1">>],
     viability_score |-> 55,
     risk_factors |-> <<"r1">>,
     summary |-> <<"p1", "p2", "p3">>]

\* A payload with every key but a score above 100, four strengths and a
\* two-entry summary.
BadPayload ==
    [swot_analysis |-> [strengths |-> <<"s1", "s2", "s3", "s4">>,
                        weaknesses |-> <<>>, opportunities |-> <<>>,
                        threats |-> <<>>],
     viability_score |-> 150,
     risk_factors |-> <<>>,
     summary |-> <<"p1", "p2">>]

GoodDoc == json_dumps(GoodPayload)
BadDoc == json_dumps(BadPayload)

\* The pieces generated texts are made of: braces, prose, whole documents.
Pieces == {"{", "}", "x", GoodDoc, BadDoc}

\* The generated_text values the remote service sends.
GeneratedTexts == Texts(Pieces, MaxPieces)

\* Line 74: json.loads(s).  Of the slices text[first "{" : last "}" + 1] of
\* the texts in GeneratedTexts, the JSON documents are exactly "{}", GoodDoc
\* and BadDoc: whatever else starts with "{" continues with "{", "x" or a
\* second document, which JSON rejects.  ok = FALSE is JSONDecodeError.
json_loads(s) ==
    IF s = "{}" THEN [ok |-> TRUE, value |-> EmptyDict]
    ELSE IF s = GoodDoc THEN [ok |-> TRUE, value |-> GoodPayload]
    ELSE IF s = BadDoc THEN [ok |-> TRUE, value |-> BadPayload]
    ELSE [ok |-> FALSE, value |-> None]

(***************************************************************************)
(* get_ai_analysis: the enrichment attempt.                                *)
(***************************************************************************)
\* Line 64: the per-call timeout of requests.post, in seconds.
InnerTimeout == 10
\* Line 186: the timeout of future.result, in seconds.
OuterTimeout == 15

\* s.find(c): the 0-based index of the first c in s, or -1.
Find(s, c) ==
    IF \E k \in 1..Len(s) : CharAt(s, k) = c
    THEN (CHOOSE k \in 1..Len(s) :
            CharAt(s, k) = c /\ \A j \in 1..(k - 1) : CharAt(s, j) # c) - 1
    ELSE -1

\* s.rfind(c): the 0-based index of the last c in s, or -1.
RFind(s, c) ==
    IF \E k \in 1..Len(s) : CharAt(s, k) = c
    THEN (CHOOSE k \in 1..Len(s) :
            CharAt(s, k) = c /\ \A j \in (k + 1)..Len(s) : CharAt(s, j) # c) - 1
    ELSE -1

\* s[a:b] for 0 <= a < b <= len(s).
Slice(s, a, b) == SubSeq(s, a + 1, b)

\* Lines 71-77: ok = FALSE is the ValueError of line 77 or the
\* JSONDecodeError of line 74.
ExtractJson(analysis_text) ==
    LET json_start == Find(analysis_text, "{")
        json_end == RFind(analysis_text, "}") + 1
    IN  IF json_start >= 0 /\ json_end > json_start
        THEN json_loads(Slice(analysis_text, json_start, json_end))
        ELSE [ok |-> FALSE, value |-> None]

\* What lines 64-66 and 69 give the worker: requests.post raises Timeout
\* ("timeout") or another RequestException ("connection_error"),
\* raise_for_status raises HTTPError ("http_error"), the body is not a list
\* whose first element has generated_text ("bad_body"), or the body carries
\* generated_text ("ok").  requests raises Timeout only after the server has
\* been silent for the per-call timeout.
ReplyKinds == {"timeout", "connection_error", "http_error", "bad_body"}

Replies(t) ==
    {[kind |-> k, text |-> ""] :
        k \in {k \in ReplyKinds : k = "timeout" => t >= InnerTimeout}}
    \cup {[kind |-> "ok", text |-> x] : x \in GeneratedTexts}

\* Lines 79-81.
RequestFailed(i) ==
    [value |-> analyze_business_idea(i), log |-> "API request failed"]

\* Mutant of OtherError: an empty dict is returned instead of the fallback.
OtherError_Empty(i) == [value |-> EmptyDict, log |-> "Error in AI analysis"]

\* Lines 82-84.
OtherError(i) ==
    [value |-> analyze_business_idea(i), log |-> "Error in AI analysis"]

\* Lines 34-84: the value returned and the message printed, given the
\* outcome r of the HTTP exchange.
get_ai_analysis(i, r) ==
    IF r.kind \in {"timeout", "connection_error", "http_error"}
    THEN RequestFailed(i)
    ELSE IF r.kind = "bad_body"
    THEN OtherError(i)
    ELSE LET parsed == ExtractJson(r.text)
         IN  IF parsed.ok THEN [value |-> parsed.value, log |-> None]
             ELSE OtherError(i)

(***************************************************************************)
(* evaluate_idea: the handler of POST /api/evaluateIdea.                   *)
(***************************************************************************)
\* Lines 192-200: the dict the handler returns.
SuccessResponse(i, a) ==
    [status |-> "success",
     message |-> "Business idea evaluated successfully",
     data |-> [businessName |-> i.businessName, industry |-> i.industry,
               analysis |-> json_dumps(a)]]

\* The Future before the worker resolves it.
NoFuture == [done |-> FALSE, value |-> None]

\* No request is being handled.
HandlerIdle ==
    /\ now = 0
    /\ worker = "idle"
    /\ reply = None
    /\ log = None
    /\ future = NoFuture
    /\ timedOut = FALSE
    /\ analysis = None
    /\ response = None

handlerVars == <<now, worker, reply, log, future, timedOut, analysis, response>>

(***************************************************************************)
(* The scorer applied to an arbitrary idea.                                *)
(***************************************************************************)
InitScorer ==
    /\ pc = "call"
    /\ idea \in Ideas
    /\ result = None
    /\ HandlerIdle

Analyze ==
    /\ pc = "call"
    /\ pc' = "returned"
    /\ result' = analyze_business_idea(idea)
    /\ UNCHANGED <<idea, handlerVars>>

NextScorer == Analyze

SpecScorer == InitScorer /\ [][NextScorer]_vars

(***************************************************************************)
(* One request to evaluate_idea.                                           *)
(***************************************************************************)
Init ==
    /\ pc = "request"
    /\ idea \in RequestIdeas
    /\ result = None
    /\ HandlerIdle

\* Lines 184-186: the attempt is submitted to a fresh pool and the handler
\* blocks in future.result(timeout=15).
Submit ==
    /\ pc = "request"
    /\ pc' = "waiting"
    /\ worker' = "in_flight"
    /\ now' = 0
    /\ UNCHANGED <<idea, result, reply, log, future, timedOut, analysis, response>>

\* A second passes while the outbound call is in flight.  A handler blocked
\* in future.result does not sleep past its timeout.
Tick ==
    /\ worker = "in_flight"
    /\ now < MaxClock
    /\ \/ pc = "waiting" /\ now < OuterTimeout
       \/ pc = "shutdown"
    /\ now' = now + 1
    /\ UNCHANGED <<pc, idea, result, worker, reply, log, future, timedOut,
                   analysis, response>>

\* Lines 64-84 in the pool thread: the HTTP exchange ends, get_ai_analysis
\* returns and the Future is resolved.
WorkerReturn ==
    /\ worker = "in_flight"
    /\ \E r \in Replies(now) :
          LET out == get_ai_analysis(idea, r)
          IN  /\ reply' = r
              /\ log' = out.log
              /\ future' = [done |-> TRUE, value |-> out.value]
    /\ worker' = "finished"
    /\ UNCHANGED <<pc, idea, result, now, timedOut, analysis, response>>

\* Lines 186, 192-200: future.result returns the worker's value, the pool is
\* shut down (its thread has finished) and the handler responds.
ReturnResult ==
    /\ pc = "waiting"
    /\ future.done
    /\ analysis' = future.value
    /\ response' = SuccessResponse(idea, future.value)
    /\ pc' = "responded"
    /\ UNCHANGED <<idea, result, now, worker, reply, log, future, timedOut>>

\* Line 186: future.result raises TimeoutError; the exception leaves the
\* `with` block through ThreadPoolExecutor.__exit__.
BudgetExpires ==
    /\ pc = "waiting"
    /\ ~future.done
    /\ now >= OuterTimeout
    /\ timedOut' = TRUE
    /\ pc' = "shutdown"
    /\ UNCHANGED <<idea, result, now, worker, reply, log, future, analysis,
                   response>>

\* Lines 184, 187-200: __exit__ is shutdown(wait=True), which joins the pool
\* thread; then the except clause runs the scorer and the handler responds.
ShutdownThenFallback ==
    /\ pc = "shutdown"
    /\ worker = "finished"
    /\ analysis' = analyze_business_idea(idea)
    /\ response' = SuccessResponse(idea, analyze_business_idea(idea))
    /\ pc' = "responded"
    /\ UNCHANGED <<idea, result, now, worker, reply, log, future, timedOut>>

Next ==
    \/ Submit
    \/ Tick
    \/ WorkerReturn
    \/ ReturnResult
    \/ BudgetExpires
    \/ ShutdownThenFallback

Spec == Init /\ [][Next]_vars

(***************************************************************************)
(* Properties of the scorer, checked under SpecScorer.                     *)
(***************************************************************************)
Range(xs) == {xs[k] : k \in 1..Len(xs)}

\* `kw in field.lower()`
Has(field, kw) == Contains(lower(field), kw)

Returned == pc = "returned"

Swot == result.swot_analysis

\* The five list-valued fields of a result.
ListsOf(r) ==
    << r.swot_analysis.strengths, r.swot_analysis.weaknesses,
       r.swot_analysis.opportunities, r.swot_analysis.threats, r.risk_factors >>

\* C4: for every BusinessIdea, analyze_business_idea returns a result whose
\* viability_score is in [0, 100], whose strengths, weaknesses, opportunities,
\* threats and risk_factors each have at most 3 entries and whose summary has
\* exactly 3 entries.
C4_SchemaValid ==
    Returned =>
        /\ result.viability_score \in 0..100
        /\ \A k \in 1..5 : Len(ListsOf(result)[k]) <= 3
        /\ Len(result.summary) = 3

\* C4 witness: a call for which more than 3 strengths were accumulated has
\* returned.
C4_Witness ==
    /\ Returned
    /\ Len(Accumulate(idea).strengths) > 3
    /\ Len(Swot.strengths) = 3

\* The score of the rule table, each exclusive pair counting its first keyword
\* only, with no clamp.
TableScore(i) ==
      (IF Len(i.description) > 100 THEN 20 ELSE 0)
    + (IF Has(i.targetMarket, "global") THEN 15
       ELSE IF Has(i.targetMarket, "local") THEN 10 ELSE 0)
    + (IF Has(i.revenueModel, "subscription") THEN 20
       ELSE IF Has(i.revenueModel, "one-time") THEN 10 ELSE 0)
    + (IF Has(i.costStructure, "low") THEN 15
       ELSE IF Has(i.costStructure, "high") THEN 5 ELSE 0)
    + (IF Has(i.distributionChannels, "online") THEN 15
       ELSE IF Has(i.distributionChannels, "physical") THEN 10 ELSE 0)
    + (IF i.industry = "SaaS" THEN 15
       ELSE IF i.industry = "E-commerce" THEN 10
       ELSE IF i.industry = "Services" THEN 12 ELSE 0)

BothMarket == Has(idea.targetMarket, "global") /\ Has(idea.targetMarket, "local")
BothRevenue ==
    Has(idea.revenueModel, "subscription") /\ Has(idea.revenueModel, "one-time")
BothCost == Has(idea.costStructure, "low") /\ Has(idea.costStructure, "high")
BothChannel ==
    /\ Has(idea.distributionChannels, "online")
    /\ Has(idea.distributionChannels, "physical")

\* C5: when a field contains both keywords of a pair (global/local,
\* subscription/one-time, low/high, online/physical), the first-checked
\* keyword's score delta and points are applied and none of the second
\* keyword's delta or points appears in the result.
C5_MutuallyExclusive ==
    Returned =>
        LET st == Accumulate(idea) IN
        /\ (BothMarket \/ BothRevenue \/ BothCost \/ BothChannel)
              => result.viability_score = TableScore(idea)
        /\ BothMarket =>
              /\ "Global market potential" \in Range(Swot.opportunities)
              /\ "International market challenges" \in Range(result.risk_factors)
              /\ "Focused local market approach" \notin Range(st.strengths)
              /\ "Focused local market approach" \notin Range(Swot.strengths)
        /\ BothRevenue =>
              /\ "Recurring revenue model" \in Range(Swot.strengths)
              /\ "One-time revenue may limit growth" \notin Range(st.weaknesses)
              /\ "One-time revenue may limit growth" \notin Range(Swot.weaknesses)
        /\ BothCost =>
              /\ "Low cost structure" \in Range(st.strengths)
              /\ "High operational costs" \notin Range(st.risk_factors)
              /\ "High operational costs" \notin Range(result.risk_factors)
        /\ BothChannel =>
              /\ "Online distribution capability" \in Range(st.strengths)
              /\ "Digital market reach" \in Range(Swot.opportunities)
              /\ "Physical distribution costs" \notin Range(st.risk_factors)
              /\ "Physical distribution costs" \notin Range(result.risk_factors)

\* C5 witness: a call whose four scanned fields each contain both keywords of
\* their pair, the second-checked keyword written first, has returned.
C5_Witness ==
    /\ Returned
    /\ idea.targetMarket = "localGlobal"
    /\ idea.revenueModel = "One-Timesubscription"
    /\ idea.costStructure = "HIGHlow"
    /\ idea.distributionChannels = "physicalOnline"

\* C6 as stated: for the idea whose seven fields are empty the score is 0, all
\* four SWOT lists are empty, summary[1] and summary[2] are the placeholders
\* and summary[0] names the tier "weak".  (Python's summary[0..2] are
\* summary[1..3] here.)
C6_AllEmptyAsStated ==
    (Returned /\ idea = EmptyIdea) =>
        /\ result.viability_score = 0
        /\ Swot.strengths = <<>>
        /\ Swot.weaknesses = <<>>
        /\ Swot.opportunities = <<>>
        /\ Swot.threats = <<>>
        /\ result.summary[1] = " shows weak market potential"
        /\ result.summary[2] = "Key strength: Need to identify core strengths"
        /\ result.summary[3] = "Main challenge: Need to assess market risks"

\* C6 amended: for the idea whose seven fields are empty the score is 0,
\* strengths, opportunities and threats are empty, weaknesses holds the one
\* entry of the short-description rule, risk_factors is empty, summary[1] and
\* summary[2] are the placeholders and summary[0] names the tier "weak".
C6_AllEmpty ==
    (Returned /\ idea = EmptyIdea) =>
        /\ result.viability_score = 0
        /\ Swot.strengths = <<>>
        /\ Swot.weaknesses = <<"Business description could be more detailed">>
        /\ Swot.opportunities = <<>>
        /\ Swot.threats = <<>>
        /\ result.risk_factors = <<>>
        /\ result.summary[1] = " shows weak market potential"
        /\ result.summary[2] = "Key strength: Need to identify core strengths"
        /\ result.summary[3] = "Main challenge: Need to assess market risks"

\* C6 witness: the call on the all-empty idea has returned.
C6_Witness == Returned /\ idea = EmptyIdea

\* C7: the summary is exactly three strings; the first names the tier
\* "strong" iff score > 70, "moderate" iff 40 < score <= 70, "weak" iff
\* score <= 40; the second is "Key strength: " followed by the first returned
\* strength, or by the placeholder iff strengths is empty; the third is
\* "Main challenge: " followed by the first returned threat, or by the
\* placeholder iff threats is empty.
C7_Summary ==
    Returned =>
        LET score == result.viability_score
            named(tier) ==
                result.summary[1] =
                    idea.businessName \o " shows " \o tier \o " market potential"
            noStrength ==
                result.summary[2] = "Key strength: Need to identify core strengths"
            noThreat ==
                result.summary[3] = "Main challenge: Need to assess market risks"
        IN  /\ Len(result.summary) = 3
            /\ named("strong") <=> score > 70
            /\ named("moderate") <=> (40 < score /\ score <= 70)
            /\ named("weak") <=> score <= 40
            /\ noStrength <=> Swot.strengths = <<>>
            /\ ~noStrength =>
                  result.summary[2] = "Key strength: " \o Swot.strengths[1]
            /\ noThreat <=> Swot.threats = <<>>
            /\ ~noThreat =>
                  result.summary[3] = "Main challenge: " \o Swot.threats[1]

\* C7 witness: a call with score exactly 70 (the edge of "strong") has
\* returned.
C7_Witness ==
    /\ Returned
    /\ result.viability_score = 70
    /\ Swot.strengths # <<>>

\* C8: the returned viability_score is the plain sum of the deltas of the
\* triggered rules; that sum never leaves [0, 100], so the clamp changes
\* nothing.
C8_ScoreIsPlainSum ==
    Returned =>
        /\ result.viability_score = TableScore(idea)
        /\ TableScore(idea) \in 0..100
        /\ Accumulate(idea).score = result.viability_score

\* C8 witness: the value 100 is returned.
C8_Witness == Returned /\ result.viability_score = 100

\* The points of each bucket in the fixed rule order description,
\* targetMarket, revenueModel, costStructure, distributionChannels, industry.
Pt(cond, text) == IF cond THEN <<text>> ELSE <<>>

StrengthsInOrder(i) ==
       Pt(Len(i.description) > 100, "Detailed business description")
    \o Pt(~Has(i.targetMarket, "global") /\ Has(i.targetMarket, "local"),
          "Focused local market approach")
    \o Pt(Has(i.revenueModel, "subscription"), "Recurring revenue model")
    \o Pt(Has(i.costStructure, "low"), "Low cost structure")
    \o Pt(Has(i.distributionChannels, "online"), "Online distribution capability")
    \o Pt(i.industry = "SaaS", "Scalable business model")
    \o Pt(i.industry = "Services", "Service-based business stability")

WeaknessesInOrder(i) ==
       Pt(Len(i.description) <= 100, "Business description could be more detailed")
    \o Pt(~Has(i.revenueModel, "subscription") /\ Has(i.revenueModel, "one-time"),
          "One-time revenue may limit growth")

OpportunitiesInOrder(i) ==
       Pt(Has(i.targetMarket, "global"), "Global market potential")
    \o Pt(Has(i.distributionChannels, "online"), "Digital market reach")
    \o Pt(i.industry = "SaaS", "Growing SaaS market")

ThreatsInOrder(i) == Pt(i.industry = "E-commerce", "High competition in e-commerce")

RisksInOrder(i) ==
       Pt(Has(i.targetMarket, "global"), "International market challenges")
    \o Pt(~Has(i.costStructure, "low") /\ Has(i.costStructure, "high"),
          "High operational costs")
    \o Pt(~Has(i.distributionChannels, "online")
            /\ Has(i.distributionChannels, "physical"),
          "Physical distribution costs")

\* The prefix of length min(3, n) of a list of n entries.
Prefix3(xs) == [k \in 1..(IF Len(xs) < 3 THEN Len(xs) ELSE 3) |-> xs[k]]

\* C9: each returned list is the prefix of length min(3, n) of the n points
\* of its bucket in rule order.
C9_PrefixInRuleOrder ==
    Returned =>
        /\ Swot.strengths = Prefix3(StrengthsInOrder(idea))
        /\ Swot.weaknesses = Prefix3(WeaknessesInOrder(idea))
        /\ Swot.opportunities = Prefix3(OpportunitiesInOrder(idea))
        /\ Swot.threats = Prefix3(ThreatsInOrder(idea))
        /\ result.risk_factors = Prefix3(RisksInOrder(idea))

\* C9 witness: five strengths qualified and the two of the later rules
\* (online distribution, industry) were dropped.
C9_Witness ==
    /\ Returned
    /\ Len(StrengthsInOrder(idea)) = 5
    /\ idea.industry = "SaaS"
    /\ Has(idea.distributionChannels, "online")
    /\ "Online distribution capability" \notin Range(Swot.strengths)
    /\ "Scalable business model" \notin Range(Swot.strengths)

\* C10: a viability_score above 50 implies a non-empty strengths list, so the
\* tier "strong" never appears with the placeholder "Need to identify core
\* strengths".
C10_HighScoreHasStrength ==
    Returned =>
        /\ result.viability_score > 50 => Swot.strengths # <<>>
        /\ ~ /\ result.summary[1] =
                    idea.businessName \o " shows strong market potential"
             /\ result.summary[2] = "Key strength: Need to identify core strengths"

\* C10 witness: a score above 50 is returned with a single strength.
C10_Witness ==
    /\ Returned
    /\ result.viability_score > 50
    /\ Len(Accumulate(idea).strengths) = 1

\* The largest score with no strength, 50, is returned.
C10_TightWitness ==
    /\ Returned
    /\ result.viability_score = 50
    /\ Swot.strengths = <<>>

(***************************************************************************)
(* Properties of the handler, checked under Spec.                          *)
(***************************************************************************)
Responded == pc = "responded"

\* C1: when the 15 second budget expires with get_ai_analysis still in
\* flight, the handler abandons the attempt and responds at once: from the
\* moment future.result has timed out, the step that runs the Fallback
\* Scorer and responds can be taken, whether or not the worker has finished.
C1_RespondsWithoutWaiting == pc = "shutdown" => ENABLED ShutdownThenFallback

\* The part of C1 the code keeps: after a timeout the response carries the
\* scorer's result, never what the worker delivered.
LateResultDiscarded ==
    (Responded /\ timedOut) =>
        response.data.analysis = json_dumps(analyze_business_idea(idea))

\* The text holds a "{" before a "}" and the substring from its first "{" to
\* its last "}" is a JSON document.
ParsesAsJson(text) ==
    \E a \in 1..Len(text) :
        /\ CharAt(text, a) = "{"
        /\ \A j \in 1..(a - 1) : CharAt(text, j) # "{"
        /\ \E b \in (a + 1)..Len(text) :
              /\ CharAt(text, b) = "}"
              /\ \A j \in (b + 1)..Len(text) : CharAt(text, j) # "}"
              /\ SubSeq(text, a, b) \in {"{}", GoodDoc, BadDoc}

\* The enrichment attempt failed: timeout or network error, non-success
\* status, body without generated_text, no brace pair, invalid JSON.
EnrichmentFailed == reply.kind \in ReplyKinds \/ ~ParsesAsJson(reply.text)

\* C2: after any enrichment failure evaluate_idea responds with status
\* "success" and an analysis identical to analyze_business_idea on the same
\* input; nothing of the failed attempt is in the result.
C2_FailureGivesFallback ==
    (Responded /\ EnrichmentFailed) =>
        /\ response.status = "success"
        /\ analysis = analyze_business_idea(idea)
        /\ response.data.analysis = json_dumps(analyze_business_idea(idea))

\* C2 witness: the service answered in time with prose holding a "}" before
\* a "{" (no pair), and the handler has responded.
C2_Witness ==
    /\ Responded
    /\ ~timedOut
    /\ reply.kind = "ok"
    /\ reply.text = "}x{"

\* Further failure cases of C2 that are reached.
C2_WitnessInvalidJson == Responded /\ reply.kind = "ok" /\ reply.text = "{x}"
C2_WitnessTimeout == Responded /\ ~timedOut /\ reply.kind = "timeout"
C2_WitnessBadBody == Responded /\ ~timedOut /\ reply.kind = "bad_body"

\* v has the AnalysisResult shape.
IsAnalysisResult(v) ==
    /\ DOMAIN v = {"swot_analysis", "viability_score", "risk_factors", "summary"}
    /\ DOMAIN v.swot_analysis = {"strengths", "weaknesses", "opportunities", "threats"}
    /\ v.viability_score \in 0..100
    /\ \A k \in 1..5 : Len(ListsOf(v)[k]) <= 3
    /\ Len(v.summary) = 3

\* C3: every analysis evaluate_idea returns has the AnalysisResult shape,
\* whichever path produced it.
C3_ReturnedShape == Responded => IsAnalysisResult(analysis)

=============================================================================
